---- MODULE Spec2Model ----
(***************************************************************************)
(* Model of FolderProcessor (src/cleaner.py): the worker thread that reads *)
(* the first column of every spreadsheet of a report directory, matches    *)
(* each value against the sub-folder names of a parent directory and moves *)
(* every matching folder into a month folder of a completed directory.     *)
(*                                                                         *)
(* Paths are modelled by their last component: a folder of parent_dir is   *)
(* its name, a folder of completed_dir is (month folder, name).  The three *)
(* directories are distinct and nothing but the worker changes them.       *)
(***************************************************************************)
EXTENDS Integers, Sequences, FiniteSets, TLC

VARIABLES
    poolExists,           \* parent_dir exists and can be listed
    parent_dir,           \* entries of parent_dir: [name, isdir, mtime]
    xlsExists,            \* xls_dir exists and can be listed
    xls_dir,              \* os.listdir(xls_dir): sequence of [name, readable, tokens]
    completed_dir,        \* folders below completed_dir: [bucket, name, src]
    month_dirs,           \* month folders that exist below completed_dir
    locked,               \* folders of parent_dir whose shutil.move raises
    pc,                   \* position of run()
    folder_map,           \* keys of folder_map in iteration order
    total_files,
    i,                    \* enumerate index of the outer loop
    first_column_values,
    vi,                   \* position in first_column_values (1-based)
    mi,                   \* position in folder_map.items() (1-based)
    progress,             \* values emitted on the progress signal, in order
    finished,             \* number of emissions of the finished signal
    listed,               \* number of os.listdir(xls_dir) calls made
    reads,                \* number of pd.read_excel calls made
    start,                \* the directories as they were when run() began
    errors                \* number of exceptions caught by the except clause

vars == <<poolExists, parent_dir, xlsExists, xls_dir, completed_dir, month_dirs,
          locked, pc, folder_map, total_files, i, first_column_values, vi, mi,
          progress, finished, listed, reads, start, errors>>

fsvars == <<poolExists, parent_dir, xlsExists, xls_dir, completed_dir, month_dirs, locked>>

(***************************************************************************)
(* Bounds of the model.                                                    *)
(***************************************************************************)
MaxTokens == 3      \* values in the first column of one spreadsheet
MaxEntries == 3     \* entries of xls_dir
MaxPre == 2         \* folders already below completed_dir when run() begins

(***************************************************************************)
(* Pure helpers of the code.                                               *)
(***************************************************************************)

\* `value in folder_name`: contiguous, case-sensitive substring.
Contains(value, folder_name) ==
    \E k \in 0..(Len(folder_name) - Len(value)) :
        SubSeq(folder_name, k + 1, k + Len(value)) = value

\* str.endswith(suffix)
EndsWith(s, suffix) ==
    /\ Len(s) >= Len(suffix)
    /\ SubSeq(s, Len(s) - Len(suffix) + 1, Len(s)) = suffix

\* file_name.endswith(('.xls', '.xlsx'))
IsReport(file_name) == EndsWith(file_name, ".xls") \/ EndsWith(file_name, ".xlsx")

MonthName ==
    <<"January", "February", "March", "April", "May", "June", "July",
      "August", "September", "October", "November", "December">>

\* The month folder named with the month number as it is, without padding.
strftime_Unpadded(d) ==
    ToString(d.month) \o " " \o MonthName[d.month] \o " " \o ToString(d.year)

\* modified_date.strftime("%m %B %Y")
strftime(d) ==
    (IF d.month < 10 THEN "0" \o ToString(d.month) ELSE ToString(d.month))
        \o " " \o MonthName[d.month] \o " " \o ToString(d.year)

\* os.path.exists(os.path.join(destination_folder, name))
PathExists(dir, destination_folder, name) ==
    \E e \in dir : e.bucket = destination_folder /\ e.name = name

\* f"{base_name} ({counter})"
Renamed(base_name, counter) == base_name \o " (" \o ToString(counter) \o ")"

\* The while loop of move_folder, entered with the given counter.
RECURSIVE RenameLoop(_, _, _, _)
RenameLoop(dir, destination_folder, base_name, counter) ==
    IF PathExists(dir, destination_folder, Renamed(base_name, counter))
    THEN RenameLoop(dir, destination_folder, base_name, counter + 1)
    ELSE Renamed(base_name, counter)

\* move_folder without the while loop: the path is taken as it is.
new_folder_path_NoRename(dir, destination_folder, base_name) == base_name

\* new_folder_path of move_folder when shutil.move is reached.
new_folder_path(dir, destination_folder, base_name) ==
    IF PathExists(dir, destination_folder, base_name)
    THEN RenameLoop(dir, destination_folder, base_name, 1)
    ELSE base_name

\* len([f for f in os.listdir(xls_dir) if f.endswith(('.xls', '.xlsx'))])
CountReportFiles(listing) ==
    Cardinality({k \in 1..Len(listing) : IsReport(listing[k].name)})

\* The percentage of the entries still to come instead of those done.
ProgressValue_Remaining(idx, total) ==
    IF total > 0 THEN ((total - idx) * 100) \div total ELSE 100

\* int((i + 1) * progress_step) with progress_step = 100 / total_files, or 100
\* when total_files = 0.  The double product truncates to the exact quotient
\* for every total_files below 58, which covers the bounds used here.
ProgressValue(idx, total) ==
    IF total > 0 THEN ((idx + 1) * 100) \div total ELSE (idx + 1) * 100

\* os.path.isdir(os.path.join(parent_dir, folder_name))
IsDir(dir, folder_name) == \E e \in dir : e.name = folder_name /\ e.isdir

\* os.path.getmtime(folder_path) of an existing folder
getmtime(dir, folder_name) == (CHOOSE e \in dir : e.name = folder_name).mtime

(***************************************************************************)
(* Initial states: the directories the worker is started on.               *)
(***************************************************************************)
Dates ==
    { [year |-> 2024, month |-> 3],
      [year |-> 2024, month |-> 11],
      [year |-> 2023, month |-> 3] }

March2024 == [year |-> 2024, month |-> 3]

FolderNames == {"Acme Corp", "Acme Corp Annex", "Beta LLC"}

Tokens == {"Acme", "Annex", "Beta LLC"}

FileNames == {"jan.xls", "feb.xlsx", "mar.xls", "notes.txt", "old.xls.bak"}

TokenLists(n) == UNION { [1..k -> Tokens] : k \in 0..n }

Injections(n, S) ==
    UNION { { f \in [1..k -> S] : \A a, b \in 1..k : a # b => f[a] # f[b] } : k \in 0..n }

Folder(name, d) == [name |-> name, isdir |-> TRUE, mtime |-> d]

ProgramInit ==
    /\ pc = "start"
    /\ folder_map = <<>>
    /\ total_files = 0
    /\ i = 0
    /\ first_column_values = <<>>
    /\ vi = 1
    /\ mi = 1
    /\ progress = <<>>
    /\ finished = 0
    /\ listed = 0
    /\ reads = 0
    /\ errors = 0
    /\ start = [parent_dir |-> parent_dir, completed_dir |-> completed_dir,
                month_dirs |-> month_dirs]

\* One readable spreadsheet with any token list; any set of candidate
\* folders, at most one of which cannot be moved.
InitTokens ==
    /\ poolExists = TRUE
    /\ xlsExists = TRUE
    /\ \E S \in SUBSET FolderNames : parent_dir = { Folder(n, March2024) : n \in S }
    /\ \E L \in SUBSET { e.name : e \in parent_dir } : Cardinality(L) <= 1 /\ locked = L
    /\ completed_dir = {}
    /\ month_dirs = {}
    /\ \E t \in TokenLists(MaxTokens) :
           xls_dir = << [name |-> "orders.xls", readable |-> TRUE, tokens |-> t] >>

ReportTokens(file_name) ==
    IF file_name = "jan.xls" THEN <<"Acme">>
    ELSE IF file_name = "feb.xlsx" THEN <<"Beta LLC">>
    ELSE <<>>

\* Any listing of the report directory, readable or not; either directory
\* may be missing.
InitReports ==
    /\ poolExists \in BOOLEAN
    /\ xlsExists \in BOOLEAN
    /\ parent_dir = IF poolExists
                    THEN { Folder("Acme Corp", March2024),
                           Folder("Beta LLC", [year |-> 2024, month |-> 11]),
                           [name |-> "Acme.txt", isdir |-> FALSE, mtime |-> March2024] }
                    ELSE {}
    /\ locked = {}
    /\ completed_dir = {}
    /\ month_dirs = {}
    /\ IF xlsExists
       THEN \E f \in Injections(MaxEntries, FileNames) :
            \E r \in [1..Len(f) -> BOOLEAN] :
               /\ \A k \in 1..Len(f) : ~IsReport(f[k]) => r[k]
               /\ xls_dir = [k \in 1..Len(f) |->
                                [name |-> f[k], readable |-> r[k],
                                 tokens |-> IF r[k] THEN ReportTokens(f[k]) ELSE <<>>]]
       ELSE xls_dir = <<>>

PreNames == {"Acme Corp", "Acme Corp (1)", "Acme Corp (2)"}

PreFolders ==
    { [bucket |-> strftime(d), name |-> n, src |-> ""] :
          d \in {March2024, [year |-> 2023, month |-> 3]}, n \in PreNames }

\* Folders of any dates moved into a completed directory that already holds
\* folders of the same names.
InitMoves ==
    /\ poolExists = TRUE
    /\ xlsExists = TRUE
    /\ \E S \in SUBSET {"Acme Corp", "Acme Corp (1)", "Beta LLC"} :
       \E m \in [S -> Dates] :
           /\ Cardinality(S) <= 2
           /\ parent_dir = { Folder(n, m[n]) : n \in S }
    /\ locked = {}
    /\ \E P \in SUBSET PreFolders :
           /\ Cardinality(P) <= MaxPre
           /\ completed_dir = P
           /\ month_dirs = { e.bucket : e \in P }
    /\ xls_dir = << [name |-> "orders.xlsx", readable |-> TRUE,
                     tokens |-> <<"Acme", "Beta LLC">>] >>

Init == (InitTokens \/ InitReports \/ InitMoves) /\ ProgramInit

(***************************************************************************)
(* run()                                                                   *)
(***************************************************************************)
Permutations_(S) ==
    { f \in [1..Cardinality(S) -> S] : \A a, b \in 1..Cardinality(S) : a # b => f[a] # f[b] }

\* The listing of a missing parent_dir taken for an empty one.
BuildFolderMap_MissingIsEmpty ==
    /\ pc = "start"
    /\ folder_map' = <<>>
    /\ pc' = "count"
    /\ UNCHANGED <<fsvars, total_files, i, first_column_values, vi, mi, progress,
                   finished, listed, reads, start, errors>>

\* Lines 50-52: the dict comprehension over os.listdir(parent_dir).  The
\* listing raises when parent_dir is missing and the exception leaves run().
BuildFolderMap ==
    /\ pc = "start"
    /\ IF poolExists
       THEN /\ \E order \in Permutations_({ e.name : e \in { d \in parent_dir : IsDir(parent_dir, d.name) } }) :
                   folder_map' = order
            /\ pc' = "count"
       ELSE /\ pc' = "crashed"
            /\ UNCHANGED folder_map
    /\ UNCHANGED <<fsvars, total_files, i, first_column_values, vi, mi, progress,
                   finished, listed, reads, start, errors>>

\* Lines 56-58: total_files and progress_step.
CountFiles ==
    /\ pc = "count"
    /\ listed' = listed + 1
    /\ IF xlsExists
       THEN /\ total_files' = CountReportFiles(xls_dir)
            /\ pc' = "for_file"
       ELSE /\ pc' = "crashed"
            /\ UNCHANGED total_files
    /\ UNCHANGED <<fsvars, folder_map, i, first_column_values, vi, mi, progress,
                   finished, reads, start, errors>>

\* Lines 60-61: the head of the loop over enumerate(os.listdir(xls_dir)).
ForFile ==
    /\ pc = "for_file"
    /\ pc' = IF i < Len(xls_dir)
             THEN (IF IsReport(xls_dir[i + 1].name) THEN "read" ELSE "emit")
             ELSE "finish"
    /\ listed' = IF i = 0 THEN listed + 1 ELSE listed
    /\ UNCHANGED <<fsvars, folder_map, total_files, i, first_column_values, vi, mi,
                   progress, finished, reads, start, errors>>

\* The read outside the try block: a failing read leaves run().
ReadExcel_Uncaught ==
    /\ pc = "read"
    /\ reads' = reads + 1
    /\ IF xls_dir[i + 1].readable
       THEN /\ first_column_values' = xls_dir[i + 1].tokens
            /\ vi' = 1
            /\ pc' = "for_value"
       ELSE /\ pc' = "crashed"
            /\ UNCHANGED <<first_column_values, vi>>
    /\ UNCHANGED <<fsvars, folder_map, total_files, i, mi, progress, finished,
                   listed, start, errors>>

\* Lines 65-67 and 80-81: pd.read_excel and the first column; a failing read
\* is caught by the except clause of the file.
ReadExcel ==
    /\ pc = "read"
    /\ reads' = reads + 1
    /\ IF xls_dir[i + 1].readable
       THEN /\ first_column_values' = xls_dir[i + 1].tokens
            /\ vi' = 1
            /\ pc' = "for_value"
       ELSE /\ pc' = "emit"
            /\ UNCHANGED <<first_column_values, vi>>
    /\ errors' = IF xls_dir[i + 1].readable THEN errors ELSE errors + 1
    /\ UNCHANGED <<fsvars, folder_map, total_files, i, mi, progress, finished,
                   listed, start>>

\* Line 70: the head of the loop over first_column_values.
ForValue ==
    /\ pc = "for_value"
    /\ IF vi <= Len(first_column_values)
       THEN pc' = "for_folder" /\ mi' = 1
       ELSE pc' = "emit" /\ UNCHANGED mi
    /\ UNCHANGED <<fsvars, folder_map, total_files, i, first_column_values, vi,
                   progress, finished, listed, reads, start, errors>>

AtFolder == pc = "for_folder" /\ mi <= Len(folder_map)

Matches == AtFolder /\ Contains(first_column_values[vi], folder_map[mi])

\* The loop over the values that does not advance to the next value.
EndFolders_NoAdvance ==
    /\ pc = "for_folder"
    /\ mi > Len(folder_map)
    /\ pc' = "for_value"
    /\ UNCHANGED <<fsvars, folder_map, total_files, i, first_column_values, vi, mi,
                   progress, finished, listed, reads, start, errors>>

\* Line 71 exhausted: back to the next value.
EndFolders ==
    /\ pc = "for_folder"
    /\ mi > Len(folder_map)
    /\ vi' = vi + 1
    /\ pc' = "for_value"
    /\ UNCHANGED <<fsvars, folder_map, total_files, i, first_column_values, mi,
                   progress, finished, listed, reads, start, errors>>

\* The body of the loop with a map that forgets moved folders: a folder that
\* has left parent_dir is passed over.
MatchBody_SkipsMissing(fs, value, folder_name) ==
    IF ~Contains(value, folder_name) \/ ~IsDir(fs.parent_dir, folder_name)
    THEN fs
    ELSE LET completed_subfolder == strftime(getmtime(fs.parent_dir, folder_name))
         IN  IF folder_name \in locked
             THEN [fs EXCEPT !.month_dirs = @ \cup {completed_subfolder},
                             !.raised = TRUE]
             ELSE [parent_dir |-> { e \in fs.parent_dir : e.name # folder_name },
                   completed_dir |-> fs.completed_dir \cup
                       { [bucket |-> completed_subfolder,
                          name |-> new_folder_path(fs.completed_dir, completed_subfolder,
                                                   folder_name),
                          src |-> folder_name] },
                   month_dirs |-> fs.month_dirs \cup {completed_subfolder},
                   raised |-> FALSE]

\* The body of the loop with a copy in place of the move: the folder stays
\* in parent_dir.
MatchBody_CopyNotMove(fs, value, folder_name) ==
    IF ~Contains(value, folder_name)
    THEN fs
    ELSE IF ~IsDir(fs.parent_dir, folder_name)
    THEN [fs EXCEPT !.raised = TRUE]
    ELSE LET completed_subfolder == strftime(getmtime(fs.parent_dir, folder_name))
         IN  IF folder_name \in locked
             THEN [fs EXCEPT !.month_dirs = @ \cup {completed_subfolder},
                             !.raised = TRUE]
             ELSE [parent_dir |-> fs.parent_dir,
                   completed_dir |-> fs.completed_dir \cup
                       { [bucket |-> completed_subfolder,
                          name |-> new_folder_path(fs.completed_dir, completed_subfolder,
                                                   folder_name),
                          src |-> folder_name] },
                   month_dirs |-> fs.month_dirs \cup {completed_subfolder},
                   raised |-> FALSE]

\* The body of the loop with the test of line 72 the other way round, the
\* folder name looked for in the value.
MatchBody_ReversedTest(fs, value, folder_name) ==
    IF ~Contains(folder_name, value)
    THEN fs
    ELSE IF ~IsDir(fs.parent_dir, folder_name)
    THEN [fs EXCEPT !.raised = TRUE]
    ELSE LET completed_subfolder == strftime(getmtime(fs.parent_dir, folder_name))
         IN  IF folder_name \in locked
             THEN [fs EXCEPT !.month_dirs = @ \cup {completed_subfolder},
                             !.raised = TRUE]
             ELSE [parent_dir |-> { e \in fs.parent_dir : e.name # folder_name },
                   completed_dir |-> fs.completed_dir \cup
                       { [bucket |-> completed_subfolder,
                          name |-> new_folder_path(fs.completed_dir, completed_subfolder,
                                                   folder_name),
                          src |-> folder_name] },
                   month_dirs |-> fs.month_dirs \cup {completed_subfolder},
                   raised |-> FALSE]

\* Lines 72-78 with move_folder (28-43) inlined: one pass of the body of the
\* loop over folder_map.items() on the directories fs.  raised tells whether
\* the pass raised: os.path.getmtime when the folder of the map has left
\* parent_dir, shutil.move when the folder cannot be moved (os.makedirs has
\* created the month folder by then).
MatchBody(fs, value, folder_name) ==
    IF ~Contains(value, folder_name)
    THEN fs
    ELSE IF ~IsDir(fs.parent_dir, folder_name)
    THEN [fs EXCEPT !.raised = TRUE]
    ELSE LET completed_subfolder == strftime(getmtime(fs.parent_dir, folder_name))
         IN  IF folder_name \in locked
             THEN [fs EXCEPT !.month_dirs = @ \cup {completed_subfolder},
                             !.raised = TRUE]
             ELSE [parent_dir |-> { e \in fs.parent_dir : e.name # folder_name },
                   completed_dir |-> fs.completed_dir \cup
                       { [bucket |-> completed_subfolder,
                          name |-> new_folder_path(fs.completed_dir, completed_subfolder,
                                                   folder_name),
                          src |-> folder_name] },
                   month_dirs |-> fs.month_dirs \cup {completed_subfolder},
                   raised |-> FALSE]

Directories ==
    [parent_dir |-> parent_dir, completed_dir |-> completed_dir,
     month_dirs |-> month_dirs, raised |-> FALSE]

\* The body of the loop outside the try block: an exception leaves run().
ForFolder_Uncaught ==
    /\ AtFolder
    /\ LET out == MatchBody(Directories, first_column_values[vi], folder_map[mi])
       IN  /\ parent_dir' = out.parent_dir
           /\ completed_dir' = out.completed_dir
           /\ month_dirs' = out.month_dirs
           /\ IF out.raised
              THEN pc' = "crashed" /\ UNCHANGED <<mi, errors>>
              ELSE mi' = mi + 1 /\ UNCHANGED <<pc, errors>>
    /\ UNCHANGED <<poolExists, xlsExists, xls_dir, locked, folder_map, total_files,
                   i, first_column_values, vi, progress, finished, listed, reads, start>>

\* Lines 71-78 and 80-81: one folder of the map against the current value.
\* An exception leaves both loops and is caught by the except clause of the
\* file, which is followed by the progress emission.
ForFolder ==
    /\ AtFolder
    /\ LET out == MatchBody(Directories, first_column_values[vi], folder_map[mi])
       IN  /\ parent_dir' = out.parent_dir
           /\ completed_dir' = out.completed_dir
           /\ month_dirs' = out.month_dirs
           /\ IF out.raised
              THEN pc' = "emit" /\ errors' = errors + 1 /\ UNCHANGED mi
              ELSE mi' = mi + 1 /\ UNCHANGED <<pc, errors>>
    /\ UNCHANGED <<poolExists, xlsExists, xls_dir, locked, folder_map, total_files,
                   i, first_column_values, vi, progress, finished, listed, reads, start>>

\* Line 83: one emission per entry of the listing.
EmitProgress ==
    /\ pc = "emit"
    /\ progress' = Append(progress, ProgressValue(i, total_files))
    /\ i' = i + 1
    /\ pc' = "for_file"
    /\ UNCHANGED <<fsvars, folder_map, total_files, first_column_values, vi, mi,
                   finished, listed, reads, start, errors>>

\* Line 86.
EmitFinished ==
    /\ pc = "finish"
    /\ finished' = finished + 1
    /\ pc' = "done"
    /\ UNCHANGED <<fsvars, folder_map, total_files, i, first_column_values, vi, mi,
                   progress, listed, reads, start, errors>>

Next ==
    \/ BuildFolderMap
    \/ CountFiles
    \/ ForFile
    \/ ReadExcel
    \/ ForValue
    \/ EndFolders
    \/ ForFolder
    \/ EmitProgress
    \/ EmitFinished

Spec == Init /\ [][Next]_vars

(***************************************************************************)
(* Properties.                                                             *)
(***************************************************************************)
\* The folders of parent_dir at the start whose name contains a value of a
\* spreadsheet that was read.
MatchedAtStart ==
    { e \in start.parent_dir :
        /\ e.isdir
        /\ \E k \in 1..Len(xls_dir) :
              /\ IsReport(xls_dir[k].name)
              /\ xls_dir[k].readable
              /\ \E j \in 1..Len(xls_dir[k].tokens) :
                    Contains(xls_dir[k].tokens[j], e.name) }

Relocated(folder_name) ==
    /\ ~IsDir(parent_dir, folder_name)
    /\ \E a \in completed_dir : a.src = folder_name

\* C1: a relocation that fails abandons only itself, so the folders, values
\* and files after it are processed: when the run completes, every folder
\* of the start that can be moved and whose name contains a value of a
\* spreadsheet that was read has been relocated.
C1_FailureIsolation ==
    pc = "done" =>
        \A e \in MatchedAtStart : e.name \notin locked => Relocated(e.name)

\* The loop over folder_map.items() for one value, from position k, until a
\* pass raises.
RECURSIVE FoldersFrom(_, _, _, _)
FoldersFrom(fs, value, map, k) ==
    IF fs.raised \/ k > Len(map)
    THEN fs
    ELSE FoldersFrom(MatchBody(fs, value, map[k]), value, map, k + 1)

\* The loop over first_column_values, from position j, until a pass raises.
RECURSIVE ValuesFrom(_, _, _, _)
ValuesFrom(fs, values, map, j) ==
    IF fs.raised \/ j > Len(values)
    THEN fs
    ELSE ValuesFrom(FoldersFrom(fs, values[j], map, 1), values, map, j + 1)

\* The sequence without the occurrences of a value after its first one.
RECURSIVE RemoveRepeats(_)
RemoveRepeats(s) ==
    IF s = <<>>
    THEN <<>>
    ELSE LET front == SubSeq(s, 1, Len(s) - 1)
             last == s[Len(s)]
         IN  IF \E j \in 1..(Len(s) - 1) : s[j] = last
             THEN RemoveRepeats(front)
             ELSE Append(RemoveRepeats(front), last)

OneReadableReport ==
    /\ Len(xls_dir) = 1
    /\ IsReport(xls_dir[1].name)
    /\ xls_dir[1].readable

\* C2: repeated values change nothing: after the run on one spreadsheet,
\* parent_dir and completed_dir are what the loops over the values leave
\* when every repeated occurrence is removed from the first column.
C2_DuplicateIsNoOp ==
    (pc = "done" /\ OneReadableReport) =>
        LET out == ValuesFrom([parent_dir |-> start.parent_dir,
                               completed_dir |-> start.completed_dir,
                               month_dirs |-> start.month_dirs,
                               raised |-> FALSE],
                              RemoveRepeats(xls_dir[1].tokens), folder_map, 1)
        IN  /\ parent_dir = out.parent_dir
            /\ completed_dir = out.completed_dir

\* C3: when the run completes, every folder that was in parent_dir at the
\* start and whose name contains a value of a spreadsheet that was read is
\* below completed_dir (no folder refusing to move).
C3_AllMatchesRelocated ==
    (pc = "done" /\ locked = {}) =>
        \A e \in MatchedAtStart : Relocated(e.name)

\* C4: a move puts the folder at <month folder>/<name> when that path is
\* unused and otherwise at "<name> (k)" for the smallest k >= 1 whose path
\* is unused; everything that was below completed_dir is still there.
C4_CollisionSafeMove ==
    [][parent_dir' # parent_dir =>
          LET base_name == folder_map[mi]
              dest == strftime(getmtime(parent_dir, base_name))
              placed == completed_dir' \ completed_dir
          IN  /\ completed_dir \subseteq completed_dir'
              /\ Cardinality(placed) = 1
              /\ \A e \in placed :
                    /\ e.bucket = dest
                    /\ e.src = base_name
                    /\ ~PathExists(completed_dir, dest, e.name)
                    /\ IF ~PathExists(completed_dir, dest, base_name)
                       THEN e.name = base_name
                       ELSE \E k \in 1..(Cardinality(completed_dir) + 1) :
                               /\ e.name = Renamed(base_name, k)
                               /\ \A j \in 1..(k - 1) :
                                     PathExists(completed_dir, dest, Renamed(base_name, j))]_vars

\* A folder was moved past two occupied paths and the folders that occupied
\* them are still there.
C4_Witness ==
    \E e \in completed_dir :
        /\ e.src = "Acme Corp"
        /\ e.name = "Acme Corp (2)"
        /\ \E a, b \in completed_dir :
              /\ a.src = "" /\ a.bucket = e.bucket /\ a.name = "Acme Corp"
              /\ b.src = "" /\ b.bucket = e.bucket /\ b.name = "Acme Corp (1)"

\* C5: every value emitted on the progress signal is in 0..100.
C5_ProgressInRange ==
    \A k \in 1..Len(progress) : progress[k] \in 0..100

\* C6: the finished signal is emitted exactly once per run, whether the run
\* ends after the last file or by the failure to list parent_dir.
C6_FinishedExactlyOnce ==
    /\ finished <= 1
    /\ (pc = "done" \/ (pc = "crashed" /\ ~poolExists)) => finished = 1

\* C7: with no report file in xls_dir the run emits progress 100, then
\* finished, and moves nothing.
C7_EmptySource ==
    (pc = "done" /\ CountReportFiles(xls_dir) = 0) =>
        /\ progress = <<100>>
        /\ finished = 1
        /\ parent_dir = start.parent_dir
        /\ completed_dir = start.completed_dir

\* C8: one progress event per spreadsheet of xls_dir and none for any other
\* entry: after the run there are as many events as spreadsheets, the k-th
\* being the percentage of k spreadsheets.
C8_OneProgressPerReport ==
    pc = "done" =>
        /\ Len(progress) = CountReportFiles(xls_dir)
        /\ \A k \in 1..Len(progress) : progress[k] = ProgressValue(k - 1, total_files)

\* C9: with parent_dir missing the run stops before xls_dir is listed, before
\* any spreadsheet is read, before any progress event, and the directories
\* are as they were.
C9_FailFast ==
    ~poolExists =>
        /\ pc \in {"start", "crashed"}
        /\ listed = 0
        /\ reads = 0
        /\ progress = <<>>
        /\ finished = 0
        /\ parent_dir = start.parent_dir
        /\ completed_dir = start.completed_dir
        /\ month_dirs = start.month_dirs

\* The run stopped on a missing parent_dir although xls_dir holds a
\* readable spreadsheet with values.
C9_Witness ==
    /\ pc = "crashed"
    /\ ~poolExists
    /\ xlsExists
    /\ \E k \in 1..Len(xls_dir) :
          IsReport(xls_dir[k].name) /\ xls_dir[k].readable /\ xls_dir[k].tokens # <<>>

\* C10: a spreadsheet whose read fails moves nothing and does not stop the
\* run: the step leaves the run where the read of a spreadsheet without
\* values leaves it, at the progress emission of that file, with the
\* directories, the map and the loop index untouched; and a run that reaches
\* its end has emitted a progress event for every entry it listed, the
\* unreadable ones included.
C10_ReadErrorTolerated ==
    /\ [][(pc = "read" /\ ~xls_dir[i + 1].readable) =>
            (/\ pc' = "emit"
             /\ UNCHANGED <<fsvars, folder_map, total_files, i, progress, finished>>)]_vars
    /\ [](pc = "done" => Len(progress) = Len(xls_dir))

\* A run completed in which an unreadable spreadsheet got its progress event
\* and a spreadsheet listed after it had its folder moved.
C10_Witness ==
    /\ pc = "done"
    /\ \E k \in 1..Len(xls_dir) :
          /\ IsReport(xls_dir[k].name)
          /\ ~xls_dir[k].readable
          /\ Len(progress) >= k
          /\ \E j \in (k + 1)..Len(xls_dir) :
                /\ xls_dir[j].readable
                /\ \E t \in 1..Len(xls_dir[j].tokens) :
                      \E a \in completed_dir : Contains(xls_dir[j].tokens[t], a.src)

\* The scenario of C11: the three folders, all movable, an empty completed
\* directory and one spreadsheet with the values Acme, Beta LLC, Acme.
Scenario11 ==
    /\ start.parent_dir = { Folder(n, March2024) : n \in FolderNames }
    /\ start.completed_dir = {}
    /\ locked = {}
    /\ xls_dir = << [name |-> "orders.xls", readable |-> TRUE,
                     tokens |-> <<"Acme", "Beta LLC", "Acme">>] >>

InValueLoop == pc \in {"for_value", "for_folder"}

AllThreeArchivedOnce ==
    /\ parent_dir = {}
    /\ completed_dir =
          { [bucket |-> "03 March 2024", name |-> n, src |-> n] : n \in FolderNames }

\* C11 as stated: the third value finds no folder and raises no error, and
\* the three folders end in the archive once each.
C11_ThirdTokenIsSilent ==
    (Scenario11 /\ pc = "done") => (errors = 0 /\ AllThreeArchivedOnce)

\* C11 as amended: the first value relocates both Acme folders, the second
\* relocates Beta LLC, the third still matches the map entry of a folder
\* already moved and raises one error, which is caught and changes nothing;
\* the three folders end in the archive once each and parent_dir is empty.
C11_StaleMapScenario ==
    Scenario11 =>
        /\ (InValueLoop /\ vi = 1) => ~Relocated("Beta LLC")
        /\ (InValueLoop /\ vi = 2) =>
              (Relocated("Acme Corp") /\ Relocated("Acme Corp Annex") /\ errors = 0)
        /\ (InValueLoop /\ vi = 3) => (AllThreeArchivedOnce /\ errors = 0)
        /\ pc = "done" => (AllThreeArchivedOnce /\ errors = 1 /\ finished = 1)

\* The scenario ran to its end.
C11_Witness == Scenario11 /\ pc = "done" /\ errors = 1

\* round(n / d) of Python 3: to the nearest integer, a tie to the even one.
Round(n, d) ==
    LET q == n \div d
        r == n % d
    IN  IF 2 * r < d THEN q
        ELSE IF 2 * r > d THEN q + 1
        ELSE IF q % 2 = 0 THEN q ELSE q + 1

\* The number of spreadsheets among the first idx entries of the listing.
ReportsUpTo(idx) ==
    Cardinality({ k \in 1..idx : IsReport(xls_dir[k].name) })

\* C12: the value emitted after the spreadsheet with index i among the
\* spreadsheets is round((i + 1) * 100 / total_report_files), and the last
\* value of a run with at least one spreadsheet is 100.
C12_ProgressIsRoundedShare ==
    pc = "done" =>
        /\ \A idx \in 1..Len(xls_dir) :
              IsReport(xls_dir[idx].name) =>
                  /\ idx <= Len(progress)
                  /\ progress[idx] = Round(ReportsUpTo(idx) * 100, CountReportFiles(xls_dir))
        /\ CountReportFiles(xls_dir) >= 1 => progress[Len(progress)] = 100

\* The values of the spreadsheets of the listing that can be read.
ValuesRead ==
    UNION { { xls_dir[k].tokens[j] : j \in 1..Len(xls_dir[k].tokens) } :
              k \in { n \in 1..Len(xls_dir) : IsReport(xls_dir[n].name) /\ xls_dir[n].readable } }

\* The candidate folders of the start whose name contains the value.
Candidates(value) ==
    { e \in start.parent_dir : e.isdir /\ Contains(value, e.name) }

\* The value is a proper substring of the name of exactly one candidate
\* folder, e, and no other value that is read matches any folder.
OnlyMatch(value, e) ==
    /\ value \in ValuesRead
    /\ Candidates(value) = {e}
    /\ value # e.name
    /\ \A u \in ValuesRead \ {value} : Candidates(u) = {}

\* The folders that have left parent_dir for completed_dir.
RelocatedFolders == { e \in start.parent_dir : Relocated(e.name) }

\* C13 as stated: with one value matching exactly one folder, exactly that
\* folder is relocated by the run and every other one stays where it was.
C13_ExactlyThatFolder ==
    pc = "done" =>
        \A e \in start.parent_dir : \A value \in Tokens :
            OnlyMatch(value, e) =>
                /\ RelocatedFolders = {e}
                /\ parent_dir = start.parent_dir \ {e}

\* C13 as amended: exactly that folder is relocated when its move does not
\* raise, and none is when it does; every other folder stays where it was
\* and nothing else enters completed_dir.
C13_Selectivity ==
    pc = "done" =>
        \A e \in start.parent_dir : \A value \in Tokens :
            OnlyMatch(value, e) =>
                IF e.name \in locked
                THEN /\ RelocatedFolders = {}
                     /\ parent_dir = start.parent_dir
                     /\ completed_dir = start.completed_dir
                ELSE /\ RelocatedFolders = {e}
                     /\ parent_dir = start.parent_dir \ {e}
                     /\ { a.src : a \in completed_dir \ start.completed_dir } = {e.name}
                     /\ Cardinality(completed_dir \ start.completed_dir) = 1

\* A run ended in which "Annex" matched only "Acme Corp Annex", another
\* value matched nothing, and other folders stayed in parent_dir.
C13_Witness ==
    /\ pc = "done"
    /\ \E e \in start.parent_dir :
          /\ OnlyMatch("Annex", e)
          /\ RelocatedFolders = {e}
    /\ Cardinality(ValuesRead) >= 2
    /\ parent_dir # {}

\* The last-modified date a folder of the start had.
StartDate(folder_name) == getmtime(start.parent_dir, folder_name)

\* The folders the run has put below completed_dir.
Placed == { a \in completed_dir : a.src # "" }

\* The month folder the claim names for each date of the model.
ExpectedBucket(d) ==
    IF d = [year |-> 2024, month |-> 3] THEN "03 March 2024"
    ELSE IF d = [year |-> 2024, month |-> 11] THEN "11 November 2024"
    ELSE "03 March 2023"

\* C14: a relocated folder is in the month folder named after its own
\* last-modified month and year, "<2-digit month> <month name> <year>";
\* folders of the same month and year share a month folder, folders of
\* different months or years do not.
C14_DestinationBucket ==
    /\ \A a \in Placed : a.bucket = ExpectedBucket(StartDate(a.src))
    /\ \A a, b \in Placed :
          (a.bucket = b.bucket) <=> (StartDate(a.src) = StartDate(b.src))
    /\ \A a \in Placed : a.bucket \in month_dirs

\* Two folders modified in March of different years were relocated, each
\* into its own month folder.
C14_Witness ==
    \E a, b \in Placed :
        /\ a.bucket = "03 March 2024"
        /\ b.bucket = "03 March 2023"
        /\ StartDate(a.src).month = StartDate(b.src).month

\* C15: the values emitted on the progress signal never decrease, and no
\* progress event is emitted once the finished signal has been emitted.
C15_ProgressOrdering ==
    /\ [](\A k \in 1..(Len(progress) - 1) : progress[k] <= progress[k + 1])
    /\ [][finished >= 1 => progress' = progress]_vars
    /\ [][progress' # progress => finished' = 0]_vars

\* A run ended after at least two progress events of increasing value.
C15_Witness ==
    /\ pc = "done"
    /\ finished = 1
    /\ Len(progress) >= 2
    /\ progress[1] < progress[2]

\* The value matches an entry of the map whose folder has left parent_dir.
StaleMatch == Matches /\ ~IsDir(parent_dir, folder_map[mi])

\* C16: the map is built once and keeps the folders that were moved; a
\* value that matches such an entry raises an error that is caught, creates
\* and moves nothing, and does not end the run: the run that reaches its end
\* has emitted one progress event per entry and the finished signal.
C16_StaleEntryFailsCleanly ==
    /\ [][pc # "start" => folder_map' = folder_map]_vars
    /\ [](pc \notin {"start", "crashed"} =>
            { folder_map[k] : k \in 1..Len(folder_map) } =
                { e.name : e \in { d \in start.parent_dir : d.isdir } })
    /\ [][StaleMatch =>
            (/\ errors' = errors + 1
             /\ pc' = "emit"
             /\ UNCHANGED <<parent_dir, completed_dir, month_dirs, progress, finished>>)]_vars
    /\ [](errors >= 1 => pc # "crashed")
    /\ [](pc = "done" => (finished = 1 /\ Len(progress) = Len(xls_dir)))

\* A run ended after an error that can only come from a stale entry: every
\* folder could be moved and every spreadsheet could be read.
C16_Witness ==
    /\ pc = "done"
    /\ errors >= 1
    /\ locked = {}
    /\ \A k \in 1..Len(xls_dir) : xls_dir[k].readable
    /\ RelocatedFolders # {}
    /\ finished = 1

\* The places below completed_dir that hold the folder of the start.
CopiesOf(folder_name) == { a \in completed_dir : a.src = folder_name }

\* The name is the original one or the original one with a " (k)" suffix.
NameOrSuffixed(name, original) ==
    \/ name = original
    \/ \E k \in 1..Cardinality(completed_dir) : name = Renamed(original, k)

\* C17: at every moment each folder of the start is in exactly one place,
\* parent_dir under its name or one month folder under its name or a
\* suffixed one; what is not a folder stays in parent_dir; nothing enters
\* parent_dir; no two folders share a path below completed_dir; and what is
\* below completed_dir, from the start or put there by a move, stays there.
C17_FolderConservation ==
    /\ [](\A e \in start.parent_dir :
            IF e.isdir
            THEN \/ /\ e \in parent_dir
                    /\ CopiesOf(e.name) = {}
                 \/ /\ \A p \in parent_dir : p.name # e.name
                    /\ Cardinality(CopiesOf(e.name)) = 1
                    /\ \A a \in CopiesOf(e.name) : NameOrSuffixed(a.name, e.name)
            ELSE e \in parent_dir)
    /\ [](parent_dir \subseteq start.parent_dir)
    /\ [](start.completed_dir \subseteq completed_dir)
    /\ [](\A a \in completed_dir \ start.completed_dir :
            \E e \in start.parent_dir : e.isdir /\ a.src = e.name)
    /\ [](\A a, b \in completed_dir :
            (a.bucket = b.bucket /\ a.name = b.name) => a = b)
    /\ [][completed_dir \subseteq completed_dir']_vars

\* One folder of the start is below completed_dir under a suffixed name
\* next to the folder that held its name, and another is still in
\* parent_dir.
C17_Witness ==
    /\ \E a \in Placed :
          /\ a.name # a.src
          /\ \E b \in start.completed_dir : b.bucket = a.bucket /\ b.name = a.src
    /\ \E e \in start.parent_dir : e.isdir /\ e \in parent_dir
    /\ start.completed_dir \subseteq completed_dir

\* The worker thread runs run() to its end: a step that can be taken is
\* eventually taken.
FairSpec == Spec /\ WF_vars(Next)

\* C18: when parent_dir and xls_dir can be listed, the run ends and emits
\* the finished signal, whatever reads and moves fail on the way.
C18_Termination ==
    (poolExists /\ xlsExists) => <>(pc = "done" /\ finished = 1)

\* A run ended with the finished signal after a move that raised.
C18_Witness ==
    /\ pc = "done"
    /\ finished = 1
    /\ errors >= 1
    /\ locked # {}
    /\ \E n \in locked : IsDir(parent_dir, n) /\ \E v \in ValuesRead : Contains(v, n)

TypeOK ==
    /\ pc \in {"start", "count", "for_file", "read", "for_value", "for_folder",
               "emit", "finish", "done", "crashed"}
    /\ finished \in 0..1
    /\ i \in 0..Len(xls_dir)
====
